---- MODULE Spec2Model ----
(***************************************************************************)
(* get_receipts.py: validate a bearer token, page through a Gmail search,  *)
(* fetch every message, download its attachments, write them to the       *)
(* output directory and extract text from PDF / DOCX attachments.          *)
(*                                                                         *)
(* JSON objects are functions whose domain is the set of keys present, so  *)
(* `"k" in d` is  "k" \in DOMAIN d  and d.get("k") is Get(d, "k").         *)
(* Strings the program takes apart (filenames, paths) are sequences of     *)
(* symbols; every other string is an opaque TLA+ string.                   *)
(***************************************************************************)
EXTENDS Naturals, Sequences, FiniteSets, TLC

\* ------------------------------------------------------------ bounds
\* Search pages the provider serves before it stops returning a token.
MaxPages == 2
\* Message references the search returns over all its pages.
MaxMessages == 2
\* Parts in one message payload.
MaxParts == 2
\* Attachment bodies fetched in one run.
MaxAttachments == 1
\* Symbols in a filename handed to save_attachment_locally directly.
MaxNameLen == 3
\* Direct calls of save_attachment_locally in one run.
MaxCalls == 2

\* ------------------------------------------------------------ Python values
None == "None"

Has(d, k) == k \in DOMAIN d

Get(d, k) == IF k \in DOMAIN d THEN d[k] ELSE None

GetOr(d, k, default) == IF k \in DOMAIN d THEN d[k] ELSE default

\* Truth value of a str-or-None.
Truthy(s) == s \notin {None, ""}

Restrict(f, S) == [k \in S |-> f[k]]

\* d[k] = v on a dict.
Put(d, k, v) == [q \in DOMAIN d \cup {k} |-> IF q = k THEN v ELSE d[q]]

Last(s) == s[Len(s)]

SeqsUpTo(S, n) == UNION { [1..k -> S] : k \in 0..n }

RECURSIVE Concat(_)
Concat(ss) == IF ss = <<>> THEN <<>> ELSE Head(ss) \o Concat(Tail(ss))

\* ------------------------------------------------------------ console input
\* What the user may type at the token prompt.
TokenInputs == {"", " ", "ya29.tok"}

\* str.strip() on those inputs.
Strip(s) == IF s = " " THEN "" ELSE s

\* ------------------------------------------------------------ provider data
\* HTTP status codes of the user-info endpoint.
StatusCodes == {200, 401, 500}

\* Continuation tokens: opaque, non-empty cursors.
Tokens == {"t1", "t2"}

\* Entries of a page's "messages" array: a reference with an id, a reference
\* without one, and an empty object.
MessageRefs == { [id |-> "m1"], [threadId |-> "th"], <<>> }

\* Bodies of the message-search endpoint. `more` says whether the provider
\* still has a page to offer, `room` how many references it has left.
SearchResponses(more, room) ==
    { Restrict([messages |-> ms, nextPageToken |-> t], ks) :
        ms \in SeqsUpTo(MessageRefs, room),
        t \in Tokens,
        ks \in (IF more THEN SUBSET {"messages", "nextPageToken"}
                        ELSE SUBSET {"messages"}) }

\* ------------------------------------------------------------ errors
NoErr == [type |-> "none", at |-> "none"]

Raise(type, at) == [type |-> type, at |-> at]

\* Exception classes the fetch phase can raise; all derive from Exception.
ExceptionClasses == {"Exception", "RequestException", "UnicodeDecodeError",
                     "binascii.Error", "OSError", "PdfReadError", "BadZipFile"}

\* What requests.get(...) and .json() raise on a dead connection or on a body
\* that is no JSON; both classes derive from RequestException.
RequestErrors == {"RequestException"}

VARIABLES
    pc,                \* where the process is
    platform,          \* "posix" or "nt": which os.path the interpreter loads
    access_token,      \* main's access_token_new
    userStatus,        \* status code of the user-info response, 0 before it
    page_token,        \* fetch_and_save_attachments' page_token
    messages,          \* ... its messages list; in the message loop, the
                       \* references the loop has still to visit
    message_id,        \* the id of the message the loop is at
    message_data,      \* the message-detail response, while it is read
    parts,             \* the parts of the message the part loop has still to visit
    filename,          \* the current attachment's filename
    attachment_data,   \* the last attachment response
    attachment_content,\* the decoded bytes of the current attachment
    attachment_count,  \* the processed-attachment counter
    output_dir_exists, \* the directory "attachments" exists
    disk,              \* files on disk: resolved path -> bytes
    pages,             \* history: the search responses received, in order
    searchReqs,        \* history: the pageToken parameter of every search request
    msgReqs,           \* history: the message ids of the message-detail requests
    attReqs,           \* history: <<message id, attachment id>> of attachment requests
    nSaves,            \* history: the number of calls of save_attachment_locally
    lastSaved,         \* history: cleaned filename -> bytes of the last save call
    nWrites,           \* history: the number of file writes
    nExtracted,        \* history: text extractions that returned
    totalFound,        \* <<n>> once "Total messages found: n" is printed, else <<>>
    summary,           \* <<n>> once "Total attachments processed: n" is printed
    err,               \* the exception in flight or caught
    reported,          \* "An error occurred" was printed
    exitStatus         \* None while running, then the process's exit status

vars == <<pc, platform, access_token, userStatus, page_token, messages,
          message_id, message_data, parts, filename, attachment_data, attachment_content,
          attachment_count, output_dir_exists, disk, pages, searchReqs, msgReqs,
          attReqs, nSaves, lastSaved, nWrites, nExtracted, totalFound, summary, err,
          reported, exitStatus>>

\* The variables of the search phase, of the message loop, of the file system
\* and of the process's end.
searchVars == <<userStatus, page_token, messages, pages, searchReqs, totalFound>>
loopVars == <<message_id, message_data, parts, filename, attachment_data, attachment_content,
              attachment_count, msgReqs, attReqs, nExtracted, summary>>
fsVars == <<output_dir_exists, disk, nSaves, lastSaved, nWrites>>
endVars == <<reported, exitStatus>>

Fresh ==
    /\ platform \in {"posix", "nt"}
    /\ access_token = None
    /\ userStatus = 0
    /\ page_token = None
    /\ messages = <<>>
    /\ message_id = None
    /\ message_data = <<>>
    /\ parts = <<>>
    /\ filename = <<>>
    /\ attachment_data = <<>>
    /\ attachment_content = <<>>
    /\ attachment_count = 0
    /\ output_dir_exists \in BOOLEAN
    /\ disk = <<>>
    /\ pages = <<>>
    /\ searchReqs = <<>>
    /\ msgReqs = <<>>
    /\ attReqs = <<>>
    /\ nSaves = 0
    /\ lastSaved = <<>>
    /\ nWrites = 0
    /\ nExtracted = 0
    /\ totalFound = <<>>
    /\ summary = <<>>
    /\ err = NoErr
    /\ reported = FALSE
    /\ exitStatus = None

\* The script is run: main is entered.
Init == pc = "main" /\ Fresh

\* main, lines 161-169: read the token; an empty one ends the run at once.
Main ==
    /\ pc = "main"
    /\ \E typed \in TokenInputs :
        /\ access_token' = Strip(typed)
        /\ IF ~Truthy(Strip(typed))
             THEN pc' = "exit" /\ exitStatus' = 0
             ELSE pc' = "userinfo" /\ UNCHANGED exitStatus
    /\ UNCHANGED <<platform, searchVars, loopVars, fsVars, err, reported>>

\* A status check that lets every answer but a server error through.
UserInfoOkLax(status) == status < 500

\* Lines 64-65: the status check on the user-info response.
UserInfoOk(status) == status = 200

\* Lines 60-77: the user-info request, its check, and the pagination set-up.
VerifyUser ==
    /\ pc = "userinfo"
    /\ \/ \E status \in StatusCodes :
            /\ userStatus' = status
            /\ IF UserInfoOk(status)
                 THEN pc' = "search" /\ UNCHANGED err
                 ELSE pc' = "raised" /\ err' = Raise("Exception", "userinfo")
       \/ /\ pc' = "raised"
          /\ err' = Raise("RequestException", "userinfo")
          /\ UNCHANGED userStatus
    /\ page_token' = None
    /\ messages' = <<>>
    /\ UNCHANGED <<platform, access_token, pages, searchReqs, totalFound,
                   loopVars, fsVars, endVars>>

\* Lines 81-83: the pageToken parameter of the search URL (None: no parameter).
PageTokenParam(tok) == IF Truthy(tok) THEN tok ELSE None

\* messages = gmail_data["messages"]: each page replaces the list.
ExtendOverwriting(msgs, gmail_data) ==
    IF Has(gmail_data, "messages") THEN gmail_data["messages"] ELSE msgs

\* Lines 88-89: messages.extend(gmail_data["messages"]).
Extend(msgs, gmail_data) ==
    IF Has(gmail_data, "messages") THEN msgs \o gmail_data["messages"] ELSE msgs

\* A loop that also goes on while pages still bring results.
LoopGoesOnWhileResults(gmail_data) ==
    Has(gmail_data, "nextPageToken") \/ Has(gmail_data, "messages")

\* Lines 91-94: the loop goes on exactly when the key is in the response.
LoopGoesOn(gmail_data) == Has(gmail_data, "nextPageToken")

\* Lines 80-96: one iteration of the pagination loop.
SearchPage ==
    /\ pc = "search"
    /\ searchReqs' = Append(searchReqs, PageTokenParam(page_token))
    /\ \/ \E gmail_data \in SearchResponses(Len(pages) + 1 < MaxPages,
                                         MaxMessages - Len(messages)) :
            /\ pages' = Append(pages, gmail_data)
            /\ messages' = Extend(messages, gmail_data)
            /\ IF LoopGoesOn(gmail_data)
                 THEN /\ page_token' = Get(gmail_data, "nextPageToken")
                      /\ pc' = "search"
                 ELSE /\ page_token' = page_token
                      /\ pc' = "found"
            /\ UNCHANGED err
       \/ \E type \in RequestErrors :
            /\ pc' = "raised"
            /\ err' = Raise(type, "search")
            /\ UNCHANGED <<pages, messages, page_token>>
    /\ UNCHANGED <<platform, access_token, userStatus, totalFound, loopVars,
                   fsVars, endVars>>

\* Lines 96-98: the loop is left, the total is printed and the counter set.
\* The histories of the pagination are dropped here: the loop that they
\* describe is over.
PrintFound ==
    /\ pc = "found"
    /\ totalFound' = <<Len(messages)>>
    /\ attachment_count' = 0
    /\ pc' = "messages"
    /\ pages' = <<>>
    /\ searchReqs' = <<>>
    /\ UNCHANGED <<platform, access_token, userStatus, page_token, messages,
                   message_id, message_data, parts, filename, attachment_data,
                   attachment_content, msgReqs, attReqs, nExtracted, summary,
                   fsVars, err, endVars>>

\* ------------------------------------------------------------ message details
\* base64.urlsafe_b64decode on the payloads the provider sends: "" is no
\* byte, "QQ==" the byte 65, "Qg==" the byte 66, "_w==" the byte 255; "QQ="
\* has incorrect padding and raises binascii.Error, and so does, in this
\* model, whatever is no string.
B64Valid(s) == s \in {"", "QQ==", "Qg==", "_w=="}

urlsafe_b64decode(s) ==
    CASE s = "" -> <<>>
      [] s = "QQ==" -> <<65>>
      [] s = "Qg==" -> <<66>>
      [] s = "_w==" -> <<255>>

\* bytes.decode("UTF-8") succeeds on these one-byte strings iff the byte is
\* ASCII.
Utf8Valid(bytes) == \A k \in 1..Len(bytes) : bytes[k] < 128

\* payload.body of a message: without data, with text, with non-UTF-8 bytes.
PayloadBodies == { [size |-> 0], [data |-> "QQ=="], [data |-> "_w=="] }

\* Filenames a part may carry, as sequences of symbols.
\*   a.PDF    ../a.docx    /    ..\a
PartFilenames ==
    { <<"a", ".", "PDF">>, <<".", ".", "/", "a", ".", "docx">>, <<"/">>,
      <<".", ".", "\\", "a">> }

\* Parts of a payload: no body, a body without attachmentId, an attachment
\* without a filename, attachments with one.
InlineParts == { [partId |-> "0"], [body |-> [size |-> 0]] }

AttachmentParts ==
    { [body |-> [attachmentId |-> "att"]] }
    \cup { [filename |-> f, body |-> [attachmentId |-> "att"]] : f \in PartFilenames }

IsAttachmentPart(part) == Has(part, "body") /\ Has(part["body"], "attachmentId")

CountAttachments(ps) == Cardinality({ k \in 1..Len(ps) : IsAttachmentPart(ps[k]) })

\* Bodies of the message-detail endpoint: no payload, a payload without
\* parts, a multipart payload. `room` is how many attachments the provider may
\* still serve.
DetailResponses(room) ==
    { <<>>, [payload |-> <<>>] }
    \cup { [payload |-> [body |-> b]] : b \in PayloadBodies }
    \cup { [payload |-> [body |-> [size |-> 0], parts |-> ps]] :
             ps \in { q \in SeqsUpTo(InlineParts \cup AttachmentParts, MaxParts) :
                        CountAttachments(q) <= room } }

\* Bodies of the attachment endpoint.
AttachmentResponses ==
    { [size |-> 0], [data |-> ""], [data |-> "Qg=="], [data |-> "QQ="] }

\* ------------------------------------------------------------ file system
\* A path string is a sequence of symbols; a resolved path is the sequence of
\* the directory names leading from the root to the file, each a sequence of
\* symbols. The process runs in the directory "cwd" directly under the root;
\* that directory holds no subdirectory but, once made, the output directory.
Root == <<>>

Cwd == << <<"cwd">> >>

\* Line 39: the default of output_dir.
OUTPUT_DIR == <<"attachments">>

OutDir == Cwd \o <<OUTPUT_DIR>>

Dirs(exists) == {Root, Cwd} \cup (IF exists THEN {OutDir} ELSE {})

\* os.sep, and the characters the operating system takes as separators.
OsSep(plat) == IF plat = "nt" THEN "\\" ELSE "/"

Seps(plat) == IF plat = "nt" THEN {"\\", "/"} ELSE {"/"}

\* Line 46: filename.replace("/", "").
CleanedFilename(fname) == SelectSeq(fname, LAMBDA c : c # "/")

\* Line 47: os.path.join(output_dir, cleaned_filename), as posixpath.join and
\* ntpath.join do it for a drive-less second argument.
os_path_join(plat, dir, name) ==
    IF name # <<>> /\ name[1] \in Seps(plat) THEN name
    ELSE IF dir = <<>> \/ Last(dir) \in Seps(plat) THEN dir \o name
    ELSE dir \o <<OsSep(plat)>> \o name

\* The components of a path string between its separators.
RECURSIVE Split(_, _)
Split(path, seps) ==
    LET cut == { k \in 1..Len(path) : path[k] \in seps } IN
    IF cut = {} THEN <<path>>
    ELSE LET k == CHOOSE m \in cut : \A n \in cut : m <= n IN
         <<SubSeq(path, 1, k - 1)>> \o Split(SubSeq(path, k + 1, Len(path)), seps)

Parent(dir) == IF dir = <<>> THEN <<>> ELSE SubSeq(dir, 1, Len(dir) - 1)

StepInto(cur, comp) ==
    IF comp \in {<<>>, <<".">>} THEN cur
    ELSE IF comp = <<".", ".">> THEN Parent(cur)
    ELSE Append(cur, comp)

\* Path resolution. Windows collapses "." and ".." in the string before it
\* looks at the disk; POSIX looks every component up in a directory that has
\* to exist.
RECURSIVE Walk(_, _, _, _)
Walk(comps, cur, dirs, lexical) ==
    IF comps = <<>> THEN [ok |-> TRUE, path |-> cur]
    ELSE IF ~lexical /\ cur \notin dirs THEN [ok |-> FALSE, path |-> cur]
    ELSE Walk(Tail(comps), StepInto(cur, Head(comps)), dirs, lexical)

Resolve(plat, path, dirs) ==
    LET comps == Split(path, Seps(plat))
        start == IF path # <<>> /\ path[1] \in Seps(plat) THEN Root ELSE Cwd
    IN  Walk(comps, start, dirs, plat = "nt")

\* Line 48: open(filepath, 'wb') creates or truncates a regular file whose
\* directory exists; everything else raises OSError.
CanOpenForWrite(plat, path, dirs) ==
    LET r == Resolve(plat, path, dirs) IN
    /\ r.ok
    /\ r.path \notin dirs
    /\ Last(Split(path, Seps(plat))) # <<>>
    /\ Parent(r.path) \in dirs

\* Lines 44-45: the directory is made when it is not there.
EnsureDir(exists) == IF ~exists THEN TRUE ELSE exists

\* Lines 48-49: the bytes that reach the file.
Written(data) == data

\* Lines 39-50: save_attachment_locally(filename, data): what it leaves
\* behind. `wrote` tells whether open succeeded; otherwise OSError is raised.
save_attachment_locally(plat, exists, dsk, fname, data) ==
    LET made == EnsureDir(exists)
        cleaned_filename == CleanedFilename(fname)
        filepath == os_path_join(plat, OUTPUT_DIR, cleaned_filename)
        dirs == Dirs(made)
        wrote == CanOpenForWrite(plat, filepath, dirs)
        target == Resolve(plat, filepath, dirs).path
    IN  [ exists |-> made,
          cleaned |-> cleaned_filename,
          wrote |-> wrote,
          target |-> target,
          disk |-> IF wrote THEN Put(dsk, target, Written(data)) ELSE dsk ]

\* ------------------------------------------------------------ text extraction
\* str.lower() on the symbols filenames are made of.
LowerSym(c) ==
    CASE c = "PDF" -> "pdf"
      [] c = "DOCX" -> "docx"
      [] OTHER -> c

Lower(name) == [k \in 1..Len(name) |-> LowerSym(name[k])]

EndsWith(name, suffix) ==
    /\ Len(name) >= Len(suffix)
    /\ SubSeq(name, Len(name) - Len(suffix) + 1, Len(name)) = suffix

\* Lines 31-36: the dispatch on the extension.
Extractor(fname) ==
    IF EndsWith(Lower(fname), <<".", "pdf">>) THEN "pdf"
    ELSE IF EndsWith(Lower(fname), <<".", "docx">>) THEN "docx"
    ELSE "unsupported"

\* What the parsing library raises on a malformed document.
ParseError(extractor) == IF extractor = "pdf" THEN "PdfReadError" ELSE "BadZipFile"

\* Line 124: part.get("filename", "untitled.txt").
DefaultFilename == <<"untitled", ".", "txt">>

\* ------------------------------------------------------------ the message loop
\* Both for loops are modelled by their iterators: `messages` and `parts` hold
\* what is still to visit, and a loop's head takes the first element off.

\* Lines 100-106: a falsy reference, or one without a truthy id, is passed over.
HasMessageId(message) == DOMAIN message # {} /\ Truthy(Get(message, "id"))

SkipMessage ==
    /\ pc = "messages"
    /\ messages # <<>>
    /\ ~HasMessageId(Head(messages))
    /\ messages' = Tail(messages)
    /\ message_id' = Get(Head(messages), "id")
    /\ UNCHANGED <<pc, platform, access_token, userStatus, page_token, pages,
                   searchReqs, totalFound, message_data, parts, filename,
                   attachment_data, attachment_content, attachment_count,
                   msgReqs, attReqs, nExtracted, summary, fsVars, err, endVars>>

\* Lines 114-118: the payload's own body is decoded for inspection; this is
\* the exception the decoding raises, "none" when there is none.
BodyDecodeError(md) ==
    IF Has(md, "payload") /\ Has(md["payload"], "body")
       /\ Has(md["payload"]["body"], "data")
    THEN LET body_data == md["payload"]["body"]["data"] IN
         IF ~B64Valid(body_data) THEN "binascii.Error"
         ELSE IF ~Utf8Valid(urlsafe_b64decode(body_data)) THEN "UnicodeDecodeError"
         ELSE "none"
    ELSE "none"

\* Line 120: the message has parts to look at.
HasParts(md) == Has(md, "payload") /\ Has(md["payload"], "parts")

\* Lines 100-121: the message-detail request and what is done with the answer.
FetchMessage ==
    /\ pc = "messages"
    /\ messages # <<>>
    /\ HasMessageId(Head(messages))
    /\ messages' = Tail(messages)
    /\ message_id' = Head(messages)["id"]
    /\ msgReqs' = Append(msgReqs, Head(messages)["id"])
    /\ \/ \E md \in DetailResponses(MaxAttachments - Len(attReqs)) :
            /\ message_data' = md
            /\ IF BodyDecodeError(md) # "none"
                 THEN /\ pc' = "raised"
                      /\ err' = Raise(BodyDecodeError(md), "detail")
                      /\ UNCHANGED parts
                 ELSE IF HasParts(md)
                 THEN /\ pc' = "parts"
                      /\ parts' = md["payload"]["parts"]
                      /\ UNCHANGED err
                 ELSE /\ pc' = "messages"
                      /\ UNCHANGED <<parts, err>>
       \/ \E type \in RequestErrors :
            /\ pc' = "raised"
            /\ err' = Raise(type, "message")
            /\ UNCHANGED <<parts, message_data>>
    /\ UNCHANGED <<platform, access_token, userStatus, page_token, pages,
                   searchReqs, totalFound, filename, attachment_data,
                   attachment_content, attachment_count, attReqs, nExtracted,
                   summary, fsVars, endVars>>

\* Line 121: the parts of the message are exhausted; on to the next message.
\* The locals of the part loop are dead from here until they are assigned
\* again, and are blanked.
EndParts ==
    /\ pc = "parts"
    /\ parts = <<>>
    /\ pc' = "messages"
    /\ message_data' = <<>>
    /\ filename' = <<>>
    /\ attachment_data' = <<>>
    /\ attachment_content' = <<>>
    /\ UNCHANGED <<platform, access_token, searchVars, message_id, parts,
                   attachment_count, msgReqs, attReqs, nExtracted, summary,
                   fsVars, err, endVars>>

\* Line 122: the part is an attachment reference.
IsAttachment(part) == IsAttachmentPart(part)

\* Lines 121-122: a part without body or without attachmentId is passed over.
\* message_data is not read again once the part loop runs.
SkipPart ==
    /\ pc = "parts"
    /\ parts # <<>>
    /\ ~IsAttachment(Head(parts))
    /\ parts' = Tail(parts)
    /\ message_data' = <<>>
    /\ UNCHANGED <<pc, platform, access_token, searchVars, message_id, filename,
                   attachment_data, attachment_content, attachment_count,
                   msgReqs, attReqs, nExtracted, summary, fsVars, err, endVars>>

\* The check of lines 136-137 left out.
HasDataUnchecked(ad) == TRUE

\* Lines 135-137: the attachment is processed only when its data is truthy.
HasData(ad) == Truthy(Get(ad, "data"))

\* Lines 121-143: the attachment request, the decoding and the save.
FetchAttachment ==
    /\ pc = "parts"
    /\ parts # <<>>
    /\ IsAttachment(Head(parts))
    /\ parts' = Tail(parts)
    /\ message_data' = <<>>
    /\ attReqs' = Append(attReqs, <<message_id, Head(parts)["body"]["attachmentId"]>>)
    /\ filename' = GetOr(Head(parts), "filename", DefaultFilename)
    /\ \/ \E ad \in AttachmentResponses :
            /\ attachment_data' = ad
            /\ IF ~HasData(ad)
                 THEN UNCHANGED <<pc, attachment_content, fsVars, err>>
                 ELSE IF ~B64Valid(Get(ad, "data"))
                 THEN /\ pc' = "raised"
                      /\ err' = Raise("binascii.Error", "decode")
                      /\ UNCHANGED <<attachment_content, fsVars>>
                 ELSE LET content == urlsafe_b64decode(Get(ad, "data"))
                          saved == save_attachment_locally(
                                       platform, output_dir_exists, disk,
                                       GetOr(Head(parts), "filename", DefaultFilename),
                                       content)
                      IN  /\ attachment_content' = content
                          /\ output_dir_exists' = saved.exists
                          /\ disk' = saved.disk
                          /\ nSaves' = nSaves + 1
                          /\ lastSaved' = Put(lastSaved, saved.cleaned, content)
                          /\ IF saved.wrote
                               THEN /\ nWrites' = nWrites + 1
                                    /\ pc' = "extract"
                                    /\ UNCHANGED err
                               ELSE /\ pc' = "raised"
                                    /\ err' = Raise("OSError", "save")
                                    /\ UNCHANGED nWrites
       \/ \E type \in RequestErrors :
            /\ pc' = "raised"
            /\ err' = Raise(type, "attachment")
            /\ UNCHANGED <<attachment_data, attachment_content, fsVars>>
    /\ UNCHANGED <<platform, access_token, searchVars, message_id,
                   attachment_count, msgReqs, nExtracted, summary, endVars>>

\* The attachment counted when it is saved and again when it is extracted.
CountedTwice(n) == n + 2

\* Line 150: attachment_count += 1.
Counted(n) == n + 1

\* The extraction wrapped in a try/except that logs the failure and goes on
\* with the next part.
ExtractTextLenient ==
    /\ pc = "extract"
    /\ \/ /\ nExtracted' = nExtracted + 1
          /\ attachment_count' = Counted(attachment_count)
          /\ UNCHANGED err
       \/ /\ Extractor(filename) # "unsupported"
          /\ err' = Raise(ParseError(Extractor(filename)), "extract")
          /\ UNCHANGED <<nExtracted, attachment_count>>
    /\ pc' = "parts"
    /\ filename' = <<>>
    /\ attachment_data' = <<>>
    /\ attachment_content' = <<>>
    /\ UNCHANGED <<platform, access_token, searchVars, message_id, message_data,
                   parts, msgReqs, attReqs, summary, fsVars, endVars>>

\* Lines 146-150: the text extraction, its print-out and the count. A PDF or
\* DOCX parser raises on a document it cannot read. The attachment's locals
\* are dead once it is counted, and are blanked.
ExtractText ==
    /\ pc = "extract"
    /\ \/ /\ nExtracted' = nExtracted + 1
          /\ attachment_count' = Counted(attachment_count)
          /\ pc' = "parts"
          /\ filename' = <<>>
          /\ attachment_data' = <<>>
          /\ attachment_content' = <<>>
          /\ UNCHANGED err
       \/ /\ Extractor(filename) # "unsupported"
          /\ pc' = "raised"
          /\ err' = Raise(ParseError(Extractor(filename)), "extract")
          /\ UNCHANGED <<nExtracted, attachment_count, filename,
                         attachment_data, attachment_content>>
    /\ UNCHANGED <<platform, access_token, searchVars, message_id, message_data,
                   parts, msgReqs, attReqs, summary, fsVars, endVars>>

\* Line 152 and main's return: the loop is over, the summary is printed and
\* the function's locals go.
Finish ==
    /\ pc = "messages"
    /\ messages = <<>>
    /\ summary' = <<attachment_count>>
    /\ pc' = "exit"
    /\ exitStatus' = 0
    /\ page_token' = None
    /\ message_id' = None
    /\ message_data' = <<>>
    /\ UNCHANGED <<platform, access_token, userStatus, messages, pages,
                   searchReqs, totalFound, parts, filename, attachment_data,
                   attachment_content, attachment_count, msgReqs, attReqs,
                   nExtracted, fsVars, err, reported>>

\* A handler written as `except requests.RequestException`.
CatchesRequestErrors(type) == type \in RequestErrors

\* main, lines 168-171: what `except Exception` catches.
Catches(type) == type \in ExceptionClasses

\* Lines 170-171: the handler prints the error and main returns. The frame
\* of fetch_and_save_attachments is gone by then, and its locals with it.
Caught ==
    /\ pc = "raised"
    /\ IF Catches(err.type)
         THEN reported' = TRUE /\ exitStatus' = 0
         ELSE reported' = FALSE /\ exitStatus' = 1
    /\ pc' = "exit"
    /\ page_token' = None
    /\ messages' = <<>>
    /\ message_id' = None
    /\ message_data' = <<>>
    /\ parts' = <<>>
    /\ filename' = <<>>
    /\ attachment_data' = <<>>
    /\ attachment_content' = <<>>
    /\ pages' = <<>>
    /\ searchReqs' = <<>>
    /\ UNCHANGED <<platform, access_token, userStatus, totalFound,
                   attachment_count, msgReqs, attReqs, nExtracted, summary,
                   fsVars, err>>

\* ------------------------------------------------------------ the persister alone
\* save_attachment_locally called directly, as a test of the module does:
\* any filename, any bytes, any number of times.
NameAlphabet == {"a", ".", "/", "\\"}

Filenames == SeqsUpTo(NameAlphabet, MaxNameLen)

ByteStrings == {<<65>>, <<66>>}

InitSave == pc = "lib" /\ Fresh

\* Lines 39-50: one call. An OSError goes to the caller, who may call again.
SaveCall ==
    /\ pc = "lib"
    /\ nSaves < MaxCalls
    /\ \E fname \in Filenames, data \in ByteStrings :
         LET saved == save_attachment_locally(platform, output_dir_exists, disk,
                                              fname, data)
         IN  /\ filename' = fname
             /\ attachment_content' = data
             /\ output_dir_exists' = saved.exists
             /\ disk' = saved.disk
             /\ nSaves' = nSaves + 1
             /\ lastSaved' = Put(lastSaved, saved.cleaned, data)
             /\ IF saved.wrote
                  THEN nWrites' = nWrites + 1 /\ err' = NoErr
                  ELSE UNCHANGED nWrites /\ err' = Raise("OSError", "save")
    /\ UNCHANGED <<pc, platform, access_token, searchVars, message_id,
                   message_data, parts, attachment_data, attachment_count,
                   msgReqs, attReqs, nExtracted, summary, endVars>>

NextSave == SaveCall

SaveSpec == InitSave /\ [][NextSave]_vars

\* ------------------------------------------------------------ the script
Next ==
    \/ Main
    \/ VerifyUser
    \/ SearchPage
    \/ PrintFound
    \/ SkipMessage
    \/ FetchMessage
    \/ EndParts
    \/ SkipPart
    \/ FetchAttachment
    \/ ExtractText
    \/ Finish
    \/ Caught

Spec == Init /\ [][Next]_vars

\* ------------------------------------------------------------ properties
InOutDir(path) ==
    Len(path) = Len(OutDir) + 1 /\ SubSeq(path, 1, Len(OutDir)) = OutDir

PageMessages(page) == GetOr(page, "messages", <<>>)

\* C1: once the user-info response has a status other than 200 the run is
\* aborted with the authentication error, and no search request, message
\* request, attachment request or file write is ever issued.
C1_AuthFailureAborts ==
    userStatus \notin {0, 200} =>
        /\ pc \in {"raised", "exit"}
        /\ err = Raise("Exception", "userinfo")
        /\ searchReqs = <<>> /\ pages = <<>>
        /\ msgReqs = <<>> /\ attReqs = <<>>
        /\ nSaves = 0 /\ nWrites = 0 /\ disk = <<>>

C1_Witness ==
    userStatus = 401 /\ pc = "exit" /\ reported /\ searchReqs = <<>>

\* C2: the pagination loop ends with the first page response that carries no
\* nextPageToken: that response takes the run out of the loop, every search
\* request is issued from inside the loop and after a response that carried a
\* token (or as the first one), and once out of the loop the run goes on to
\* the message loop and never searches again.
C2_PaginationTerminates ==
    /\ [][ (pages' # pages /\ pages' # <<>>
            /\ ~Has(Last(pages'), "nextPageToken")) => pc' = "found" ]_vars
    /\ [][ (searchReqs' # searchReqs /\ searchReqs' # <<>>)
            => /\ pc = "search"
               /\ pages = <<>> \/ Has(Last(pages), "nextPageToken") ]_vars
    /\ [][ pc = "found" => pc' = "messages" ]_vars
    /\ [][ pc \notin {"main", "userinfo", "search"} => pc' # "search" ]_vars

C2_Witness ==
    /\ pc = "found"
    /\ Len(pages) = 2
    /\ Has(pages[1], "nextPageToken")
    /\ ~Has(pages[2], "nextPageToken")
    /\ Len(searchReqs) = 2

C4_NoDataSkipped ==
    [][ ( /\ attReqs' # attReqs
          /\ ~(pc' = "raised" /\ err'.at = "attachment")
          /\ ~Has(attachment_data', "data") )
        => /\ pc' = "parts"
           /\ err' = NoErr
           /\ parts' = Tail(parts)
           /\ disk' = disk /\ nSaves' = nSaves /\ nWrites' = nWrites
           /\ nExtracted' = nExtracted
           /\ attachment_count' = attachment_count ]_vars

C4_Witness ==
    /\ pc = "parts"
    /\ Len(attReqs) = 1
    /\ attachment_data = [size |-> 0]
    /\ parts # <<>>
    /\ err = NoErr /\ nSaves = 0 /\ attachment_count = 0

\* C5: every file that is written lies directly inside the output directory.
C5_NoTraversal == \A path \in DOMAIN disk : InOutDir(path)

\* C6: every file in the output directory holds exactly the bytes of the last
\* save call whose cleaned filename is the file's name, and the directory
\* exists once a call was made.
C6_LastWriteWins ==
    /\ nSaves > 0 => output_dir_exists
    /\ \A path \in DOMAIN disk :
          InOutDir(path) =>
              /\ Last(path) \in DOMAIN lastSaved
              /\ disk[path] = lastSaved[Last(path)]

\* C7: whatever the fetch phase raises is caught in main and reported, and
\* the process ends with exit status 0, as it does when nothing is raised.
C7_ErrorsSwallowed ==
    /\ pc = "exit" => exitStatus = 0
    /\ (pc = "exit" /\ err # NoErr) => reported
    /\ reported => err # NoErr

C7_Witness ==
    pc = "exit" /\ err.at = "extract" /\ reported /\ exitStatus = 0

\* C8: a message-detail response without payload or without parts is passed
\* over without an error: handling it never leaves an exception in flight.
C8_MissingFieldsSkipped ==
    ~HasParts(message_data) => ~(pc = "raised" /\ err.at = "detail")

\* C9: a failing text extraction is not caught in the loop. The run is
\* aborted where it is: the attachment's file is on disk, the attachment is
\* not counted, the summary is never printed, and nothing more is requested,
\* saved or extracted.
C9_ExtractionFailureAborts ==
    /\ [](err.at = "extract" =>
            /\ pc \in {"raised", "exit"}
            /\ summary = <<>>
            /\ nWrites = attachment_count + 1
            /\ nExtracted = attachment_count
            /\ pc = "raised" =>
                 \E path \in DOMAIN disk : disk[path] = attachment_content)
    /\ [][ err.at = "extract" =>
             UNCHANGED <<msgReqs, attReqs, nSaves, nWrites, disk, nExtracted,
                         attachment_count, summary>> ]_vars

C9_Witness ==
    /\ pc = "raised"
    /\ err.at = "extract"
    /\ parts # <<>>
    /\ messages # <<>>
    /\ nWrites = 1 /\ attachment_count = 0

====
